---------------------------- MODULE Spec2Model ----------------------------
(***************************************************************************)
(* A model of the scroll-driven "Our Universe" single page application:    *)
(*   - App (scroll progress tracker, settle timer, pinned range registry,  *)
(*     global snap classifier, teardown),                                  *)
(*   - LetterSection / TypingPanel (typewriter reveal),                    *)
(*   - ClosingSection (tap counter and one-shot explosion),                *)
(*   - Scene (the 3D scene's visual gates and its camera controller).      *)
(*                                                                         *)
(* JavaScript numbers are modelled as exact rationals [n, d] in lowest     *)
(* terms, extended with NaN, Infinity and -Infinity for a division by      *)
(* zero; rounding of floating point numbers is not modelled.  Strings are  *)
(* sequences of characters.                                                *)
(***************************************************************************)
EXTENDS Integers, Sequences, FiniteSets, TLC

(***************************************************************************)
(* Bounds of the model.                                                    *)
(***************************************************************************)
\* Largest scroll extent, in layout units, a page layout may have.
MaxScrollPx == 3
\* Largest number of pinned sections (each registers one ScrollTrigger).
MaxPinned == 2
\* Candidate snap values include the multiples of 1/SnapGrid in [0,1].
SnapGrid == 4
\* Largest window / document height, in layout units, of a scroll event.
MaxHeight == 8
\* Length of the love letter's greeting (body and closing are shorter).
GreetingLen == 2
\* Largest number of reveal coroutines alive at the same time.
MaxRuns == 2
\* Largest number of clicks on the finale rose.
MaxTaps == 8
\* The finished page scrolls over 20 * MaxSceneUnits units.
MaxSceneUnits == 2
\* Largest number of animation frames the camera controller renders.
MaxFrames == 2
\* Largest number of clicks on the sound toggle.
MaxClicks == 5
\* Largest number of changes of the sound toggle's audioUrl prop.
MaxUrlChanges == 1
\* Number of memories (orbs) of the orbit system.
MaxMemories == 2
\* Largest number of the memory overlay's closing tweens, and of its clear
\* timers, pending at the same time.
MaxPending == 2

(***************************************************************************)
(* JavaScript numbers.                                                     *)
(***************************************************************************)
\* A number is a record [n, d]: the rational n/d when d > 0, and NaN,
\* Infinity or -Infinity when d = 0.
NaN == [n |-> 0, d |-> 0]
PosInf == [n |-> 1, d |-> 0]
NegInf == [n |-> -1, d |-> 0]

AbsInt(x) == IF x < 0 THEN -x ELSE x

RECURSIVE GCD(_, _)
GCD(a, b) == IF b = 0 THEN a ELSE GCD(b, a % b)

\* The rational n/d (d # 0) in lowest terms with a positive denominator.
Rat(n, d) ==
    LET g == GCD(AbsInt(n), AbsInt(d))
        s == IF d < 0 THEN -1 ELSE 1
    IN  [n |-> (s * n) \div g, d |-> (s * d) \div g]

IsRat(x) == x.d > 0

Zero == Rat(0, 1)
One == Rat(1, 1)

RLt(a, b) == a.n * b.d < b.n * a.d
RLe(a, b) == a.n * b.d <= b.n * a.d
RAdd(a, b) == Rat(a.n * b.d + b.n * a.d, a.d * b.d)
RSub(a, b) == Rat(a.n * b.d - b.n * a.d, a.d * b.d)
RMul(a, b) == Rat(a.n * b.n, a.d * b.d)
RAbs(a) == [n |-> AbsInt(a.n), d |-> a.d]

\* a / b on integers, as JavaScript computes it: x/0 is +-Infinity, 0/0 is NaN.
JSDiv(a, b) ==
    IF b # 0 THEN Rat(a, b)
    ELSE IF a = 0 THEN NaN
    ELSE IF a > 0 THEN PosInf ELSE NegInf

\* Math.max(a, x) and Math.min(a, x) for a rational a: NaN is contagious.
MathMax(a, x) ==
    IF x = NaN THEN NaN
    ELSE IF x = PosInf THEN PosInf
    ELSE IF x = NegInf THEN a
    ELSE IF RLt(x, a) THEN a ELSE x

MathMin(a, x) ==
    IF x = NaN THEN NaN
    ELSE IF x = NegInf THEN NegInf
    ELSE IF x = PosInf THEN a
    ELSE IF RLt(a, x) THEN a ELSE x

VARIABLES
    \* ---- window / document (inputs of the scroll handler)
    scrollY, scrollHeight, innerHeight,
    \* ---- React
    mounted,         \* the App and with it every section is mounted
    \* ---- App
    scrollProgress,  \* useState(0)
    isLoaded,        \* useState(false)
    timer,           \* the 500 ms settle timer is pending
    triggersRef,     \* triggersRef.current: ids of the snap triggers created
    pinnedRanges,    \* the ranges captured by the snapTo closure
    snapCall,        \* the last call of snapTo, <<[value, result]>>, or <<>>
    \* ---- ScrollTrigger (the animation library's registry)
    stAll,           \* ScrollTrigger.getAll(): the sections' triggers
    maxScroll,       \* ScrollTrigger.maxScroll(window)
    stSnaps,         \* ids of the live triggers created with a snap config
    \* ---- LetterSection and its TypingPanel
    isVisible,         \* LetterSection's useState(false), the panel's prop
    displayedGreeting, displayedBody, displayedClosing,
    isTypingComplete,
    runs,              \* the typeText() calls that have not returned yet
    finished,          \* the writes and pauses of the last call that returned
    \* ---- ClosingSection
    tapCount,          \* useState(0)
    hasExploded,       \* useState(false)
    rose,              \* the targets of the last tweens of .interactive-rose
    petals,            \* petal elements in the petals container
    messageShown,      \* the final message's reveal tween was started
    taps,              \* clicks on the rose so far
    explosions,        \* calls of explodeRose that created petals
    petalsCreated,     \* petal elements created so far
    \* ---- Scene (SceneContent and CameraController)
    mobile,            \* useMemo(() => isMobile(), []): the viewport is narrow
    scene,             \* what SceneContent rendered for the current progress
    cameraPosition,    \* camera.position
    frame,             \* the last frame's progress, stage, t and target, or <<>>
    frames,            \* animation frames rendered so far
    \* ---- SoundToggle
    audioUrl,          \* the audioUrl prop: 0 is the default track
    isPlaying,         \* useState(false)
    soundIsLoaded,     \* the toggle's own isLoaded, useState(false)
    soundRef,          \* soundRef.current: the Howl of the last effect run
    clicks,            \* clicks on the toggle so far
    playCalls,         \* calls of sound.play() so far
    pauseCalls,        \* calls of sound.pause() so far
    \* ---- the memory overlay (App and MemoryModal)
    selectedMemory,    \* useState(null): 0 is null, k the k-th memory
    isModalOpen,       \* useState(false)
    closeTweens,       \* MemoryModal's closing tweens that are running
    clearTimers        \* the 300 ms timers of handleCloseModal that are pending

appVars == <<scrollProgress, isLoaded, timer, triggersRef, pinnedRanges,
             snapCall>>
winVars == <<scrollY, scrollHeight, innerHeight>>
stVars == <<stAll, maxScroll, stSnaps>>
displayed == <<displayedGreeting, displayedBody, displayedClosing>>
letterVars == <<isVisible, displayed, isTypingComplete, runs, finished>>
closingVars == <<tapCount, hasExploded, rose, petals, messageShown, taps,
                 explosions, petalsCreated>>
sceneVars == <<mobile, scene, cameraPosition, frame, frames>>
soundVars == <<audioUrl, isPlaying, soundIsLoaded, soundRef, clicks,
               playCalls, pauseCalls>>
modalVars == <<selectedMemory, isModalOpen, closeTweens, clearTimers>>
vars == <<mounted, winVars, appVars, stVars, letterVars, closingVars,
          sceneVars, soundVars, modalVars>>


(***************************************************************************)
(* Scene: the visual gates of SceneContent.                                *)
(***************************************************************************)
\* a / b for rationals a and b # 0.
RDiv(a, b) == Rat(a.n * b.d, a.d * b.n)

\* Math.floor of a rational.
Floor(a) == a.n \div a.d

\* The growth with a last piece that falls to 0 instead of 1.5.
roseGrowthFallsToZero(p) ==
    MathMax(Zero, MathMin(Rat(3, 1),
        IF RLt(p, Rat(15, 100)) THEN Zero
        ELSE IF RLt(p, Rat(30, 100))
             THEN RMul(RDiv(RSub(p, Rat(15, 100)), Rat(15, 100)), Rat(3, 1))
        ELSE IF RLt(p, Rat(50, 100)) THEN Rat(3, 1)
        ELSE IF RLt(p, Rat(65, 100))
             THEN RSub(Rat(3, 1),
                       RMul(RDiv(RSub(p, Rat(50, 100)), Rat(15, 100)),
                            Rat(3, 1)))
        ELSE Rat(15, 10)))

\* const roseGrowth = Math.max(0, Math.min(3, ... ))
roseGrowth(p) ==
    MathMax(Zero, MathMin(Rat(3, 1),
        IF RLt(p, Rat(15, 100)) THEN Zero
        ELSE IF RLt(p, Rat(30, 100))
             THEN RMul(RDiv(RSub(p, Rat(15, 100)), Rat(15, 100)), Rat(3, 1))
        ELSE IF RLt(p, Rat(50, 100)) THEN Rat(3, 1)
        ELSE IF RLt(p, Rat(65, 100))
             THEN RSub(Rat(3, 1),
                       RMul(RDiv(RSub(p, Rat(50, 100)), Rat(15, 100)),
                            Rat(15, 10)))
        ELSE Rat(15, 10)))

\* Rose: const growth = Math.max(0, Math.min(3, growthStage))
growth(growthStage) == MathMax(Zero, MathMin(Rat(3, 1), growthStage))

showAsteroid(p) == RLt(Rat(10, 100), p) /\ RLt(p, Rat(65, 100))

\* The orbit gate without its upper end.
showMemoriesToEnd(p) == RLt(Rat(30, 100), p)

showMemories(p) == RLt(Rat(30, 100), p) /\ RLt(p, Rat(55, 100))

\* The heart gate with >= for >.
showHeartFromThreshold(p) == RLe(Rat(60, 100), p)

showHeart(p) == RLt(Rat(60, 100), p)

\* The draw progress without Math.min(1, ...).
heartProgressUnclamped(p) ==
    IF RLt(Rat(60, 100), p)
    THEN RDiv(RSub(p, Rat(60, 100)), Rat(15, 100))
    ELSE Zero

heartProgress(p) ==
    IF RLt(Rat(60, 100), p)
    THEN MathMin(One, RDiv(RSub(p, Rat(60, 100)), Rat(15, 100)))
    ELSE Zero

\* const numPoints = 40
numPoints == 40

\* ConstellationHeart: Math.floor(progress * heartPoints.length)
maxIndex(progress) == Floor(RMul(progress, Rat(numPoints, 1)))

\* What SceneContent renders for a progress: the asteroid with the rose of
\* this growth, the memory orbits, and the heart drawn up to maxIndex, each
\* only if its gate is open.  A comparison with NaN is false.
SceneContent(p) ==
    [roseGrowth    |-> roseGrowth(p),
     growth        |-> growth(roseGrowth(p)),
     showAsteroid  |-> showAsteroid(p),
     showMemories  |-> showMemories(p),
     showHeart     |-> showHeart(p),
     heartProgress |-> heartProgress(p),
     maxIndex      |-> maxIndex(heartProgress(p))]

(***************************************************************************)
(* App: the scroll progress tracker.                                       *)
(***************************************************************************)
Max0(x) == IF x < 0 THEN 0 ELSE x

\* The progress updateProgress computes from window.scrollY,
\* document.documentElement.scrollHeight and window.innerHeight.
Progress(scrollTop, sh, ih) ==
    LET docHeight == sh - ih
    IN  MathMin(One, MathMax(Zero, JSDiv(scrollTop, docHeight)))

\* A scroll event: the listener reads the window and stores the progress.
\* The browser keeps scrollY within the scrollable extent.
updateProgress ==
    /\ mounted
    /\ \E sh \in 0..MaxHeight, ih \in 1..MaxHeight :
         \E y \in 0..Max0(sh - ih) :
            /\ scrollY' = y
            /\ scrollHeight' = sh
            /\ innerHeight' = ih
            /\ scrollProgress' = Progress(y, sh, ih)
    /\ scene' = SceneContent(scrollProgress')
    /\ UNCHANGED <<mounted, isLoaded, timer, triggersRef, pinnedRanges,
                   snapCall, stVars, letterVars, closingVars>>
    /\ UNCHANGED <<mobile, cameraPosition, frame, frames>>
    /\ UNCHANGED <<soundVars, modalVars>>

\* The scroll extent of the finished page, its progress at a scroll position,
\* and a scroll event on it: the listener stores the progress and the scene
\* renders again.
SceneExtent == 20 * MaxSceneUnits

PageProgress(y) == Progress(y, SceneExtent + 1, 1)

ScrollPageTo(y) ==
    /\ mounted
    /\ scrollY' = y
    /\ scrollHeight' = SceneExtent + 1
    /\ innerHeight' = 1
    /\ scrollProgress' = PageProgress(y)
    /\ scene' = SceneContent(scrollProgress')
    /\ UNCHANGED <<mounted, isLoaded, timer, triggersRef, pinnedRanges,
                   snapCall, stVars, letterVars, closingVars>>
    /\ UNCHANGED <<mobile, cameraPosition, frame, frames>>
    /\ UNCHANGED <<soundVars, modalVars>>

ScrollPage == \E y \in 0..SceneExtent : ScrollPageTo(y)

(***************************************************************************)
(* ScrollTrigger: the layout the sections' triggers end up with.           *)
(***************************************************************************)
\* The pinned triggers a layout of scroll extent m can hold.
PinnedTriggers(m) ==
    {t \in [start : 0..m, end : 0..m, pin : {TRUE}] : t.start <= t.end}

\* The footer's trigger, the only one without a pin; it is created last.
FooterTrigger(m) == [start |-> m, end |-> m, pin |-> FALSE]

\* The pinned sections follow each other in the document, so their scroll
\* ranges do not overlap (they may touch).
Disjoint(p) ==
    \A i, j \in 1..Len(p) :
        i # j => (p[i].end <= p[j].start \/ p[j].end <= p[i].start)

\* The pinned sections' triggers in any order, then the footer's if it exists.
Layouts(m) ==
    {p \o f :
        p \in {q \in UNION {[1..k -> PinnedTriggers(m)] : k \in 0..MaxPinned} :
                  Disjoint(q)},
        f \in {<<>>, <<FooterTrigger(m)>>}}

\* ScrollTrigger.refresh(): the sections' triggers get their positions.  The
\* layout is measured once, before the settle delay has elapsed.
Refresh ==
    /\ mounted
    /\ timer
    /\ stAll = <<>> /\ maxScroll = 0
    /\ \E m \in 0..MaxScrollPx :
         \E layout \in Layouts(m) :
            /\ maxScroll' = m
            /\ stAll' = layout
    /\ UNCHANGED <<mounted, winVars, appVars, stSnaps, letterVars, closingVars>>
    /\ UNCHANGED <<sceneVars, soundVars, modalVars>>

(***************************************************************************)
(* App: the pinned range registry and the snap classifier.                 *)
(***************************************************************************)
IsPinned(st) == st.pin
NotPinned(st) == ~st.pin

\* s with x put behind every element whose start is <= x.start.
RECURSIVE Insert(_, _)
Insert(x, s) ==
    IF s = <<>> THEN <<x>>
    ELSE IF s[Len(s)].start <= x.start THEN Append(s, x)
    ELSE Append(Insert(x, SubSeq(s, 1, Len(s) - 1)), s[Len(s)])

\* Array.prototype.sort((a, b) => a.start - b.start): a stable sort.
RECURSIVE SortByStart(_)
SortByStart(s) ==
    IF s = <<>> THEN <<>>
    ELSE Insert(s[Len(s)], SortByStart(SubSeq(s, 1, Len(s) - 1)))

\* ScrollTrigger.getAll().filter(st => st.vars.pin).sort(...)
Pinned(all) == SortByStart(SelectSeq(all, IsPinned))

\* The range with the trigger's end taken for its center.
PinnedRangeCenterAtEnd(st, max) ==
    [start  |-> Rat(st.start, max),
     end    |-> Rat(st.end, max),
     center |-> Rat(st.end, max)]

\* One pinned trigger normalised by the scroll extent (max # 0).  The center
\* is computed in pixels, (start + (end - start) * 0.5) / max.
PinnedRange(st, max) ==
    [start  |-> Rat(st.start, max),
     end    |-> Rat(st.end, max),
     center |-> Rat(2 * st.start + (st.end - st.start), 2 * max)]

PinnedRanges(pinned, max) ==
    [i \in 1..Len(pinned) |-> PinnedRange(pinned[i], max)]

\* The buffer around a pinned range inside which snapping engages: 0.02.
Eps == Rat(2, 100)

InBuffer(r, value) ==
    /\ RLe(RSub(r.start, Eps), value)
    /\ RLe(value, RAdd(r.end, Eps))

\* The reduce with a callback that never replaces the accumulator.
ReduceClosestKeepsFirst(ranges, k, closest, value) == closest

\* The reduce with <= for <: a later range at equal distance replaces.
RECURSIVE ReduceClosestLaterWinsTies(_, _, _, _)
ReduceClosestLaterWinsTies(ranges, k, closest, value) ==
    IF k > Len(ranges) THEN closest
    ELSE ReduceClosestLaterWinsTies(ranges, k + 1,
            IF RLe(RAbs(RSub(ranges[k].center, value)),
                   RAbs(RSub(closest, value)))
            THEN ranges[k].center
            ELSE closest,
            value)

\* pinnedRanges.reduce(...) from index k on, with the accumulator closest.
RECURSIVE ReduceClosest(_, _, _, _)
ReduceClosest(ranges, k, closest, value) ==
    IF k > Len(ranges) THEN closest
    ELSE ReduceClosest(ranges, k + 1,
            IF RLt(RAbs(RSub(ranges[k].center, value)),
                   RAbs(RSub(closest, value)))
            THEN ranges[k].center
            ELSE closest,
            value)

\* A snapTo that moves only halfway to the nearest center.
snapToHalfway(ranges, value) ==
    LET inPinned == \E i \in 1..Len(ranges) : InBuffer(ranges[i], value)
    IN  IF ~inPinned THEN value
        ELSE RMul(Rat(1, 2),
                  RAdd(value,
                       ReduceClosest(ranges, 1,
                          IF Len(ranges) > 0 THEN ranges[1].center ELSE Zero,
                          value)))

\* snapTo without its free-scroll branch.
snapToAlwaysNearest(ranges, value) ==
    ReduceClosest(ranges, 1,
        IF Len(ranges) > 0 THEN ranges[1].center ELSE Zero, value)

snapTo(ranges, value) ==
    LET inPinned == \E i \in 1..Len(ranges) : InBuffer(ranges[i], value)
    IN  IF ~inPinned THEN value
        ELSE ReduceClosest(ranges, 1,
                IF Len(ranges) > 0 THEN ranges[1].center ELSE Zero, value)

\* The early return with its test of the scroll extent only.
SnapDisabledIgnoresPinned(pinned, max) == max = 0

\* if (!maxScroll || pinned.length === 0) return
SnapDisabled(pinned, max) == max = 0 \/ Len(pinned) = 0

\* A settle callback that calls setIsLoaded(true) only after the snap setup.
SettleTimerLoadsAfterSetup ==
    /\ timer
    /\ timer' = FALSE
    /\ LET pinned == Pinned(stAll)
       IN  IF SnapDisabled(pinned, maxScroll)
           THEN UNCHANGED <<isLoaded, pinnedRanges, triggersRef, stSnaps>>
           ELSE LET globalSnap == Len(triggersRef) + 1
                IN  /\ isLoaded' = IF mounted THEN TRUE ELSE isLoaded
                    /\ pinnedRanges' = PinnedRanges(pinned, maxScroll)
                    /\ stSnaps' = stSnaps \cup {globalSnap}
                    /\ triggersRef' = Append(triggersRef, globalSnap)
    /\ UNCHANGED <<mounted, winVars, scrollProgress, snapCall, stAll,
                   maxScroll, letterVars, closingVars>>
    /\ UNCHANGED <<sceneVars, soundVars, modalVars>>

\* The settle timer fires (500 ms after mount unless it was cleared).
SettleTimer ==
    /\ timer
    /\ timer' = FALSE
    /\ isLoaded' = IF mounted THEN TRUE ELSE isLoaded
    /\ LET pinned == Pinned(stAll)
       IN  IF SnapDisabled(pinned, maxScroll)
           THEN UNCHANGED <<pinnedRanges, triggersRef, stSnaps>>
           ELSE LET globalSnap == Len(triggersRef) + 1
                IN  /\ pinnedRanges' = PinnedRanges(pinned, maxScroll)
                    /\ stSnaps' = stSnaps \cup {globalSnap}
                    /\ triggersRef' = Append(triggersRef, globalSnap)
    /\ UNCHANGED <<mounted, winVars, scrollProgress, snapCall, stAll,
                   maxScroll, letterVars, closingVars>>
    /\ UNCHANGED <<sceneVars, soundVars, modalVars>>

\* ScrollTrigger asks the live global snap trigger where to settle.
\* The candidates: a coarse grid, and for every range its centre and the two
\* ends of its buffer, each end together with the value just outside it.
Delta == Rat(1, 1000)

SnapValues(ranges) ==
    {Rat(k, SnapGrid) : k \in 0..SnapGrid} \cup
    UNION {{ranges[i].center,
            RSub(ranges[i].start, Eps),
            RSub(RSub(ranges[i].start, Eps), Delta),
            RAdd(ranges[i].end, Eps),
            RAdd(RAdd(ranges[i].end, Eps), Delta)} : i \in 1..Len(ranges)}

Snap ==
    /\ stSnaps # {}
    /\ \E value \in SnapValues(pinnedRanges) :
         snapCall' = <<[value |-> value,
                        result |-> snapTo(pinnedRanges, value)]>>
    /\ UNCHANGED <<mounted, winVars, scrollProgress, isLoaded, timer,
                   triggersRef, pinnedRanges, stVars, letterVars,
                   closingVars>>
    /\ UNCHANGED <<sceneVars, soundVars, modalVars>>

Range(s) == {s[i] : i \in 1..Len(s)}

(***************************************************************************)
(* SoundToggle and the Howl it holds.                                      *)
(***************************************************************************)
\* new Howl({ src: [url], loop: true, volume: 0.3, html5: true, ... }): it
\* starts loading and is not playing.
Howl(url) == [url |-> url, state |-> "loading", playing |-> FALSE]

\* sound.play(), sound.pause() and sound.unload().
play(sound) == [sound EXCEPT !.playing = TRUE]
pause(sound) == [sound EXCEPT !.playing = FALSE]
unload(sound) == [sound EXCEPT !.state = "unloaded", !.playing = FALSE]

\* The Howl finished loading and calls onload.
onload ==
    /\ soundRef.state = "loading"
    /\ soundRef' = [soundRef EXCEPT !.state = "loaded"]
    /\ soundIsLoaded' = TRUE
    /\ UNCHANGED <<audioUrl, isPlaying, clicks, playCalls, pauseCalls>>
    /\ UNCHANGED <<mounted, winVars, appVars, stVars, letterVars, closingVars,
                   sceneVars, modalVars>>

\* An onloaderror that marks the track as loaded.
onloaderrorSetsLoaded ==
    /\ soundRef.state = "loading"
    /\ soundRef' = [soundRef EXCEPT !.state = "error"]
    /\ soundIsLoaded' = TRUE
    /\ UNCHANGED <<audioUrl, isPlaying, clicks, playCalls, pauseCalls>>
    /\ UNCHANGED <<mounted, winVars, appVars, stVars, letterVars, closingVars,
                   sceneVars, modalVars>>

\* The Howl failed to load and calls onloaderror, which warns on the console
\* and throws nothing.
onloaderror ==
    /\ soundRef.state = "loading"
    /\ soundRef' = [soundRef EXCEPT !.state = "error"]
    /\ soundIsLoaded' = FALSE
    /\ UNCHANGED <<audioUrl, isPlaying, clicks, playCalls, pauseCalls>>
    /\ UNCHANGED <<mounted, winVars, appVars, stVars, letterVars, closingVars,
                   sceneVars, modalVars>>

\* A click on the toggle.  The button is disabled while isLoaded is false
\* and toggleSound returns at once in that case.
toggleSound ==
    /\ mounted
    /\ clicks < MaxClicks
    /\ clicks' = clicks + 1
    /\ IF ~soundIsLoaded
       THEN UNCHANGED <<isPlaying, soundRef, playCalls, pauseCalls>>
       ELSE IF isPlaying
       THEN /\ soundRef' = pause(soundRef)
            /\ pauseCalls' = pauseCalls + 1
            /\ isPlaying' = FALSE
            /\ UNCHANGED playCalls
       ELSE /\ soundRef' = play(soundRef)
            /\ playCalls' = playCalls + 1
            /\ isPlaying' = TRUE
            /\ UNCHANGED pauseCalls
    /\ UNCHANGED <<audioUrl, soundIsLoaded>>
    /\ UNCHANGED <<mounted, winVars, appVars, stVars, letterVars, closingVars,
                   sceneVars, modalVars>>

\* The parent renders the toggle with another audioUrl: the effect's cleanup
\* unloads the Howl and the effect creates one for the new url.
AudioUrlChange ==
    /\ mounted
    /\ audioUrl < MaxUrlChanges
    /\ audioUrl' = audioUrl + 1
    /\ soundRef' = Howl(audioUrl + 1)
    /\ UNCHANGED <<isPlaying, soundIsLoaded, clicks, playCalls, pauseCalls>>
    /\ UNCHANGED <<mounted, winVars, appVars, stVars, letterVars, closingVars,
                   sceneVars, modalVars>>

InitSound ==
    /\ audioUrl = 0
    /\ isPlaying = FALSE
    /\ soundIsLoaded = FALSE
    /\ soundRef = Howl(0)
    /\ clicks = 0
    /\ playCalls = 0
    /\ pauseCalls = 0

\* The cleanup without its clearTimeout(timer).
UnmountKeepsTimer ==
    /\ mounted
    /\ mounted' = FALSE
    /\ stSnaps' = stSnaps \ Range(triggersRef)
    /\ triggersRef' = <<>>
    /\ stAll' = SelectSeq(stAll, NotPinned)
    /\ UNCHANGED <<winVars, scrollProgress, isLoaded, timer, pinnedRanges,
                   snapCall, maxScroll, letterVars, closingVars>>
    /\ soundRef' = unload(soundRef)
    /\ UNCHANGED <<audioUrl, isPlaying, soundIsLoaded, clicks, playCalls,
                   pauseCalls>>
    /\ UNCHANGED <<sceneVars, modalVars>>

\* React unmounts the App and with it every section, running the effects'
\* cleanups: App removes its scroll listener, clears the settle timer and
\* kills the triggers it created, each pinned section kills its timeline
\* and with it its ScrollTrigger, and SoundToggle unloads its Howl.  TypingPanel's typewriter effect and
\* ClosingSection's petal tweens have no cleanup.
Unmount ==
    /\ mounted
    /\ mounted' = FALSE
    /\ timer' = FALSE
    /\ stSnaps' = stSnaps \ Range(triggersRef)
    /\ triggersRef' = <<>>
    /\ stAll' = SelectSeq(stAll, NotPinned)
    /\ UNCHANGED <<winVars, scrollProgress, isLoaded, pinnedRanges, snapCall,
                   maxScroll, letterVars, closingVars>>
    /\ soundRef' = unload(soundRef)
    /\ UNCHANGED <<audioUrl, isPlaying, soundIsLoaded, clicks, playCalls,
                   pauseCalls>>
    /\ UNCHANGED <<sceneVars, modalVars>>

(***************************************************************************)
(* LetterSection and TypingPanel: the typewriter.                          *)
(***************************************************************************)
\* The love letter's texts come from the data file; a character is modelled
\* as the pair of its segment and its position.
Text(tag, len) == [k \in 1..len |-> <<tag, k>>]

greeting == Text("g", GreetingLen)
body == Text("b", GreetingLen - 1)
closing == Text("c", GreetingLen - 1)

Min(a, b) == IF a < b THEN a ELSE b

\* A slice that ignores its end and returns the whole string.
SliceWhole(str, begin, end) == str

\* String.prototype.slice(begin, end) for 0 <= begin.
Slice(str, begin, end) == SubSeq(str, begin + 1, Min(end, Len(str)))

\* The progress values (in hundredths) the section's ScrollTrigger reports.
SectionProgress == {0, 25, 26, 50, 84, 85, 100}

\* self.progress > 0.25 && self.progress < 0.85
ShowPanel(p) == p > 25 /\ p < 85

\* A typeText() call that has just begun: it wrote greeting.slice(0, 0) and
\* waits for its first timer.  Beside its position the call carries what it
\* has done so far: the setDisplayed...() calls it made (steps), the
\* inter-segment delays it sat out (pauses), and whether no other call has
\* been running beside it (alone).
NewRun == [pc |-> "greeting", i |-> 0, steps |-> 1, pauses |-> 0,
           alone |-> TRUE]

\* The calls still running when the effect starts another one: none of them
\* is cancelled, and from now on none of them runs alone.
Joined(rs, run) ==
    [k \in 1..Len(rs) + 1 |->
        IF k <= Len(rs) THEN [rs[k] EXCEPT !.alone = FALSE]
        ELSE [run EXCEPT !.alone = (Len(rs) = 0)]]

\* The section's onUpdate: setIsVisible, and when the value changes the
\* panel renders again and runs the effects that depend on isVisible.
onUpdate ==
    /\ mounted
    /\ \E p \in SectionProgress :
         LET visible == ShowPanel(p)
         IN  IF visible = isVisible
             THEN UNCHANGED letterVars
             ELSE IF visible
             THEN /\ Len(runs) < MaxRuns
                  /\ isVisible' = TRUE
                  /\ displayedGreeting' = Slice(greeting, 0, 0)
                  /\ displayedBody' = <<>>
                  /\ displayedClosing' = <<>>
                  /\ isTypingComplete' = FALSE
                  /\ runs' = Joined(runs, NewRun)
                  /\ UNCHANGED finished
             ELSE /\ isVisible' = FALSE
                  /\ UNCHANGED <<displayed, isTypingComplete, runs, finished>>
    /\ UNCHANGED <<mounted, winVars, appVars, stVars, closingVars>>
    /\ UNCHANGED <<sceneVars, soundVars, modalVars>>

\* A state setter whose updates never arrive.
SetStateDropped(old, new) == old

\* A state setter of the panel: React drops the update once it is unmounted.
SetState(old, new) == IF mounted THEN new ELSE old

Remove(s, r) == SubSeq(s, 1, r - 1) \o SubSeq(s, r + 1, Len(s))

\* The timer the r-th running typeText() awaits fires, and the call runs on
\* to its next await (or returns).
RevealStep(r) ==
    /\ r \in 1..Len(runs)
    /\ LET run == runs[r]
           next == run.i + 1
       IN  /\ CASE run.pc = "greeting" ->
                  IF next <= Len(greeting)
                  THEN /\ displayedGreeting' =
                             SetState(displayedGreeting, Slice(greeting, 0, next))
                       /\ runs' = [runs EXCEPT ![r].i = next, ![r].steps = @ + 1]
                       /\ UNCHANGED <<displayedBody, displayedClosing,
                                      isTypingComplete>>
                  ELSE /\ runs' = [runs EXCEPT ![r].pc = "pause1"]
                       /\ UNCHANGED <<displayed, isTypingComplete>>
             [] run.pc = "pause1" ->
                  /\ displayedBody' = SetState(displayedBody, Slice(body, 0, 0))
                  /\ runs' = [runs EXCEPT ![r].pc = "body", ![r].i = 0,
                                          ![r].steps = @ + 1,
                                          ![r].pauses = @ + 1]
                  /\ UNCHANGED <<displayedGreeting, displayedClosing,
                                 isTypingComplete>>
             [] run.pc = "body" ->
                  IF next <= Len(body)
                  THEN /\ displayedBody' =
                             SetState(displayedBody, Slice(body, 0, next))
                       /\ runs' = [runs EXCEPT ![r].i = next, ![r].steps = @ + 1]
                       /\ UNCHANGED <<displayedGreeting, displayedClosing,
                                      isTypingComplete>>
                  ELSE /\ runs' = [runs EXCEPT ![r].pc = "pause2"]
                       /\ UNCHANGED <<displayed, isTypingComplete>>
             [] run.pc = "pause2" ->
                  /\ displayedClosing' =
                        SetState(displayedClosing, Slice(closing, 0, 0))
                  /\ runs' = [runs EXCEPT ![r].pc = "closing", ![r].i = 0,
                                          ![r].steps = @ + 1,
                                          ![r].pauses = @ + 1]
                  /\ UNCHANGED <<displayedGreeting, displayedBody,
                                 isTypingComplete>>
             [] run.pc = "closing" ->
                  IF next <= Len(closing)
                  THEN /\ displayedClosing' =
                             SetState(displayedClosing, Slice(closing, 0, next))
                       /\ runs' = [runs EXCEPT ![r].i = next, ![r].steps = @ + 1]
                       /\ UNCHANGED <<displayedGreeting, displayedBody,
                                      isTypingComplete>>
                  ELSE /\ isTypingComplete' = SetState(isTypingComplete, TRUE)
                       /\ runs' = Remove(runs, r)
                       /\ UNCHANGED displayed
           /\ finished' = IF run.pc = "closing" /\ next > Len(closing)
                          THEN <<[steps |-> run.steps, pauses |-> run.pauses]>>
                          ELSE finished
    /\ UNCHANGED <<mounted, isVisible>>
    /\ UNCHANGED <<winVars, appVars, stVars, closingVars>>
    /\ UNCHANGED <<sceneVars, soundVars, modalVars>>

typeText == \E r \in 1..MaxRuns : RevealStep(r)

InitLetter ==
    /\ isVisible = FALSE
    /\ displayedGreeting = <<>>
    /\ displayedBody = <<>>
    /\ displayedClosing = <<>>
    /\ isTypingComplete = FALSE
    /\ runs = <<>>
    /\ finished = <<>>

(***************************************************************************)
(* ClosingSection: the interactive rose.                                   *)
(***************************************************************************)
\* const petalCount = 30
petalCount == 30

\* The tap handler without its early return.
TapIgnoredNever == FALSE

\* if (hasExploded) return
TapIgnored == hasExploded

\* The explosion test one tap early, and one tap late.
ShouldExplodeEarly(newTapCount) == newTapCount >= 5

ShouldExplodeLate(newTapCount) == newTapCount > 6

\* if (newTapCount >= 6)
ShouldExplode(newTapCount) == newTapCount >= 6

\* The targets of the bloom and glow tweens of a tap.
Bloom(newTapCount) ==
    [scale    |-> Rat(100 + newTapCount * 15, 100),
     rotation |-> newTapCount * 5,
     glow     |-> 20 + newTapCount * 10,
     opacity  |-> rose.opacity]

\* explodeRose hides the rose ...
Hidden(r) == [r EXCEPT !.scale = Zero, !.opacity = 0]

\* A click on the rose.  The rose and the petals container are rendered
\* whenever the section is mounted, so explodeRose does not return early.
handleRoseTap ==
    /\ mounted
    /\ taps < MaxTaps
    /\ taps' = taps + 1
    /\ IF TapIgnored
       THEN UNCHANGED <<tapCount, hasExploded, rose, petals, messageShown,
                        explosions, petalsCreated>>
       ELSE LET newTapCount == tapCount + 1
            IN  /\ tapCount' = newTapCount
                /\ IF ShouldExplode(newTapCount)
                   THEN /\ hasExploded' = TRUE
                        /\ rose' = Hidden(Bloom(newTapCount))
                        /\ petals' = petals + petalCount
                        /\ petalsCreated' = petalsCreated + petalCount
                        /\ explosions' = explosions + 1
                        /\ messageShown' = TRUE
                   ELSE /\ rose' = Bloom(newTapCount)
                        /\ UNCHANGED <<hasExploded, petals, petalsCreated,
                                       explosions, messageShown>>
    /\ UNCHANGED <<mounted, winVars, appVars, stVars, letterVars>>
    /\ UNCHANGED <<sceneVars, soundVars, modalVars>>

\* A petal's tween completes: onComplete removes the petal.
PetalComplete ==
    /\ petals > 0
    /\ petals' = petals - 1
    /\ UNCHANGED <<tapCount, hasExploded, rose, messageShown, taps,
                   explosions, petalsCreated>>
    /\ UNCHANGED <<mounted, winVars, appVars, stVars, letterVars>>
    /\ UNCHANGED <<sceneVars, soundVars, modalVars>>

InitClosing ==
    /\ tapCount = 0
    /\ hasExploded = FALSE
    /\ rose = [scale |-> One, rotation |-> 0, glow |-> 20, opacity |-> 1]
    /\ petals = 0
    /\ messageShown = FALSE
    /\ taps = 0
    /\ explosions = 0
    /\ petalsCreated = 0


(***************************************************************************)
(* Scene: the camera controller.                                           *)
(***************************************************************************)
\* No depth offset on a narrow viewport.
zOffsetNone(mob) == Zero

\* const zOffset = mobile ? 3 : 0
zOffset(mob) == IF mob THEN Rat(3, 1) ELSE Zero

\* The branch with <= for < at 0.50.
StageBoundaryToEarlier(p) ==
    IF RLt(p, Rat(15, 100)) THEN "hero"
    ELSE IF RLt(p, Rat(30, 100)) THEN "rose-reveal"
    ELSE IF RLe(p, Rat(50, 100)) THEN "memory-orbits"
    ELSE IF RLt(p, Rat(65, 100)) THEN "letter"
    ELSE IF RLt(p, Rat(80, 100)) THEN "heart"
    ELSE "finale"

\* The branch of the if-chain that a progress takes.
Stage(p) ==
    IF RLt(p, Rat(15, 100)) THEN "hero"
    ELSE IF RLt(p, Rat(30, 100)) THEN "rose-reveal"
    ELSE IF RLt(p, Rat(50, 100)) THEN "memory-orbits"
    ELSE IF RLt(p, Rat(65, 100)) THEN "letter"
    ELSE IF RLt(p, Rat(80, 100)) THEN "heart"
    ELSE "finale"

\* The local t with the finale divided by 0.15 like its neighbours.
LocalTFinaleShort(p) ==
    CASE Stage(p) = "hero" -> RDiv(p, Rat(15, 100))
      [] Stage(p) = "rose-reveal" ->
            RDiv(RSub(p, Rat(15, 100)), Rat(15, 100))
      [] Stage(p) = "memory-orbits" ->
            RDiv(RSub(p, Rat(30, 100)), Rat(20, 100))
      [] Stage(p) = "letter" -> RDiv(RSub(p, Rat(50, 100)), Rat(15, 100))
      [] Stage(p) = "heart" -> RDiv(RSub(p, Rat(65, 100)), Rat(15, 100))
      [] Stage(p) = "finale" -> RDiv(RSub(p, Rat(80, 100)), Rat(15, 100))

\* const t = ... of the branch taken.
LocalT(p) ==
    CASE Stage(p) = "hero" -> RDiv(p, Rat(15, 100))
      [] Stage(p) = "rose-reveal" ->
            RDiv(RSub(p, Rat(15, 100)), Rat(15, 100))
      [] Stage(p) = "memory-orbits" ->
            RDiv(RSub(p, Rat(30, 100)), Rat(20, 100))
      [] Stage(p) = "letter" -> RDiv(RSub(p, Rat(50, 100)), Rat(15, 100))
      [] Stage(p) = "heart" -> RDiv(RSub(p, Rat(65, 100)), Rat(15, 100))
      [] Stage(p) = "finale" -> RDiv(RSub(p, Rat(80, 100)), Rat(20, 100))

\* Math.sin(a * Math.PI) and Math.cos(a * Math.PI) where they are rational
\* and modelled: at the multiples of 1/2.
HalfTurns(a) == a.d = 1 \/ a.d = 2

SinPi(a) ==
    LET k == ((2 * a.n) \div a.d) % 4
    IN  IF k = 1 THEN One ELSE IF k = 3 THEN Rat(-1, 1) ELSE Zero

CosPi(a) == SinPi(RAdd(a, Rat(1, 2)))

Vector3(x, y, z) == [x |-> x, y |-> y, z |-> z]

\* targetPosition of the branch taken.
TargetPosition(p, mob) ==
    LET t == LocalT(p)
        two == Rat(2, 1)
    IN  CASE Stage(p) = "hero" ->
               Vector3(Zero,
                       RAdd(two, RMul(t, two)),
                       RAdd(RSub(Rat(15, 1), RMul(t, Rat(5, 1))), zOffset(mob)))
          [] Stage(p) = "rose-reveal" ->
               Vector3(RMul(SinPi(t), IF mob THEN two ELSE Rat(3, 1)),
                       RSub(two, RMul(t, One)),
                       RAdd(RSub(Rat(10, 1), RMul(t, Rat(4, 1))), zOffset(mob)))
          [] Stage(p) = "memory-orbits" ->
               Vector3(RMul(SinPi(RMul(t, two)),
                            IF mob THEN Rat(3, 1) ELSE Rat(4, 1)),
                       RAdd(One, RMul(SinPi(t), Rat(5, 10))),
                       RAdd(RAdd(Rat(6, 1), RMul(CosPi(RMul(t, two)), two)),
                            zOffset(mob)))
          [] Stage(p) = "letter" ->
               Vector3(Zero,
                       RAdd(One, RMul(t, Rat(5, 10))),
                       RAdd(RSub(Rat(5, 1), RMul(t, two)), zOffset(mob)))
          [] Stage(p) = "heart" ->
               Vector3(Zero,
                       RAdd(One, t),
                       RAdd(RSub(Rat(6, 1), RMul(t, two)), zOffset(mob)))
          [] Stage(p) = "finale" ->
               Vector3(RMul(SinPi(t), IF mob THEN Rat(15, 10) ELSE two),
                       RAdd(two, t),
                       RAdd(RAdd(Rat(8, 1), RMul(t, two)), zOffset(mob)))

\* Vector3.copy for Vector3.lerp: the position is set to the target.
lerpCopies(position, v, alpha) == v

\* Vector3.lerp: this.x += (v.x - this.x) * alpha, and so for y and z.
lerp(position, v, alpha) ==
    Vector3(RAdd(position.x, RMul(RSub(v.x, position.x), alpha)),
            RAdd(position.y, RMul(RSub(v.y, position.y), alpha)),
            RAdd(position.z, RMul(RSub(v.z, position.z), alpha)))

\* The progress values at which the model renders frames: in [0,1], with
\* the local t a multiple of 1/2, where the sines are modelled.
CameraStop(p) ==
    /\ IsRat(p)
    /\ HalfTurns(LocalT(p))

\* useFrame of the camera controller: the target of the current progress,
\* then the position moves towards it.  (The look-at direction, which the
\* frame also smooths, is not modelled.)
useFrame ==
    /\ mounted
    /\ frames < MaxFrames
    /\ CameraStop(scrollProgress)
    /\ LET targetPosition == TargetPosition(scrollProgress, mobile)
       IN  /\ cameraPosition' = lerp(cameraPosition, targetPosition, Rat(5, 100))
           /\ frame' = <<[progress |-> scrollProgress,
                          stage    |-> Stage(scrollProgress),
                          t        |-> LocalT(scrollProgress),
                          target   |-> targetPosition]>>
    /\ frames' = frames + 1
    /\ UNCHANGED <<mobile, scene>>
    /\ UNCHANGED <<soundVars, modalVars>>
    /\ UNCHANGED <<mounted, winVars, appVars, stVars, letterVars, closingVars>>

\* A scroll event that leaves the page at a progress where frames are
\* modelled.
SceneStops == {y \in 0..SceneExtent : CameraStop(PageProgress(y))}

ScrollToStop == \E y \in SceneStops : ScrollPageTo(y)

\* <Canvas camera={{ position: [0, 2, mobile ? 18 : 15] }}>
InitScene ==
    /\ mobile \in BOOLEAN
    /\ scene = SceneContent(Zero)
    /\ cameraPosition =
          Vector3(Zero, Rat(2, 1), IF mobile THEN Rat(18, 1) ELSE Rat(15, 1))
    /\ frame = <<>>
    /\ frames = 0

(***************************************************************************)
(* The memory orbs and the overlay (App's state, MemoryModal).             *)
(***************************************************************************)
null == 0
Memories == 1..MaxMemories

\* MemoryModal: if (!isOpen || !memory) return null; otherwise the overlay
\* covers the viewport above the canvas and shows the memory's title, date,
\* image and message.
ModalShown == isModalOpen /\ selectedMemory # null

\* App's handleMemoryClick, called by a click on an orb.  The orbs are there
\* to click while the orbit system is rendered and the overlay is not.
handleMemoryClick(memory) ==
    /\ mounted
    /\ scene.showMemories
    /\ ~ModalShown
    /\ selectedMemory' = memory
    /\ isModalOpen' = TRUE
    /\ UNCHANGED <<closeTweens, clearTimers>>
    /\ UNCHANGED <<mounted, winVars, appVars, stVars, letterVars, closingVars,
                   sceneVars, soundVars>>

\* An orbit system whose every orb passes the first memory.
OrbMemoryFirst(k) == 1

\* memories.map((memory, index) => <MemoryOrb onClick={() =>
\* onOrbClick?.(memory)} />): the k-th orb passes the k-th memory.
OrbMemory(k) == k

OrbClick(k) == handleMemoryClick(OrbMemory(k))

ClickOrb == \E k \in Memories : OrbClick(k)

\* MemoryModal's handleClose: a click on the backdrop calls it once, a click
\* on the close button calls it and bubbles to the backdrop, which calls it
\* again.  Each call starts a closing tween whose onComplete is onClose.
handleClose ==
    /\ mounted
    /\ ModalShown
    /\ \E calls \in {1, 2} :
         /\ closeTweens + calls <= MaxPending
         /\ closeTweens' = closeTweens + calls
    /\ UNCHANGED <<selectedMemory, isModalOpen, clearTimers>>
    /\ UNCHANGED <<mounted, winVars, appVars, stVars, letterVars, closingVars,
                   sceneVars, soundVars>>

\* A closing tween completes and calls App's handleCloseModal, which closes
\* the overlay and starts the 300 ms timer that clears the memory.
handleCloseModal ==
    /\ closeTweens > 0
    /\ clearTimers < MaxPending
    /\ closeTweens' = closeTweens - 1
    /\ isModalOpen' = SetState(isModalOpen, FALSE)
    /\ clearTimers' = clearTimers + 1
    /\ UNCHANGED selectedMemory
    /\ UNCHANGED <<mounted, winVars, appVars, stVars, letterVars, closingVars,
                   sceneVars, soundVars>>

\* A 300 ms timer of handleCloseModal fires: setSelectedMemory(null).
clearSelected ==
    /\ clearTimers > 0
    /\ clearTimers' = clearTimers - 1
    /\ selectedMemory' = SetState(selectedMemory, null)
    /\ UNCHANGED <<isModalOpen, closeTweens>>
    /\ UNCHANGED <<mounted, winVars, appVars, stVars, letterVars, closingVars,
                   sceneVars, soundVars>>

InitModal ==
    /\ selectedMemory = null
    /\ isModalOpen = FALSE
    /\ closeTweens = 0
    /\ clearTimers = 0

InitApp ==
    /\ mounted = TRUE
    /\ scrollY = 0
    /\ scrollHeight = 1
    /\ innerHeight = 1
    /\ scrollProgress = Zero
    /\ isLoaded = FALSE
    /\ timer = TRUE
    /\ triggersRef = <<>>
    /\ pinnedRanges = <<>>
    /\ snapCall = <<>>
    /\ stAll = <<>>
    /\ maxScroll = 0
    /\ stSnaps = {}

Init ==
    InitApp /\ InitLetter /\ InitClosing /\ InitScene /\ InitSound /\ InitModal

\* The page on a wide viewport.  The snap effect reads nothing of the scene,
\* so its specifications start here.
InitWide == Init /\ ~mobile

NextScroll == updateProgress \/ Unmount
NextSnap == Refresh \/ SettleTimer \/ Snap \/ Unmount
NextTyping == onUpdate \/ typeText \/ Unmount
NextClosing == handleRoseTap \/ PetalComplete \/ Unmount
NextScene == ScrollPage \/ Unmount
NextCamera == ScrollToStop \/ useFrame \/ Unmount
\* App renders <SoundToggle /> without an audioUrl: the prop never changes.
NextSound == onload \/ onloaderror \/ toggleSound \/ Unmount
\* SoundToggle under a parent that does change the prop.
NextSoundUrl == NextSound \/ AudioUrlChange
NextModal ==
    \/ ScrollToStop \/ ClickOrb \/ handleClose \/ handleCloseModal
    \/ clearSelected \/ Unmount
Next ==
    \/ updateProgress \/ Refresh \/ SettleTimer \/ Snap
    \/ onUpdate \/ typeText
    \/ handleRoseTap \/ PetalComplete
    \/ ScrollPage \/ useFrame
    \/ onload \/ onloaderror \/ toggleSound
    \/ ClickOrb \/ handleClose \/ handleCloseModal \/ clearSelected
    \/ Unmount

SpecScroll == Init /\ [][NextScroll]_vars
SpecSnap == InitWide /\ [][NextSnap]_vars
\* setTimeout(..., 500): a pending settle timer does not stay pending for
\* ever.  It ends by firing (SettleTimer) unless the cleanup's clearTimeout
\* (Unmount) comes first; those are the two steps that end it.
TimerExpires == timer /\ timer' = FALSE

SpecSnapFair == InitWide /\ [][NextSnap]_vars /\ WF_timer(TimerExpires)
SpecTyping == Init /\ [][NextTyping]_vars
\* The timers a running typeText() awaits do fire.
SpecTypingFair == Init /\ [][NextTyping]_vars /\ WF_vars(typeText)
SpecClosing == Init /\ [][NextClosing]_vars
SpecScene == Init /\ [][NextScene]_vars
SpecCamera == Init /\ [][NextCamera]_vars
SpecSound == Init /\ [][NextSound]_vars
SpecSoundUrl == Init /\ [][NextSoundUrl]_vars
SpecModal == Init /\ [][NextModal]_vars
Spec == Init /\ [][Next]_vars


(***************************************************************************)
(* The claims.                                                             *)
(***************************************************************************)
Dist(a, b) == RAbs(RSub(a, b))

\* The ranges whose buffered interval [start - 0.02, end + 0.02] holds v.
Containing(ranges, v) ==
    {i \in 1..Len(ranges) :
        /\ RLe(RSub(ranges[i].start, Rat(2, 100)), v)
        /\ RLe(v, RAdd(ranges[i].end, Rat(2, 100)))}

\* The single range {start: 0.10, end: 0.20, center: 0.15}.
ExampleRanges ==
    <<[start |-> Rat(10, 100), end |-> Rat(20, 100), center |-> Rat(15, 100)]>>

\* C1: once the panel is shown again, no reveal step of an earlier
\* typeText() call (any but the newest) changes the displayed segments.
C1_RestartDiscardsOldRun ==
    [][\A r \in 1..MaxRuns :
          (r < Len(runs) /\ RevealStep(r)) => UNCHANGED displayed]_vars

C3_FreeScrollUnchanged ==
    /\ \A k \in 1..Len(snapCall) :
          LET v == snapCall[k].value
          IN  (\A i \in 1..Len(pinnedRanges) :
                  \/ RLt(v, RSub(pinnedRanges[i].start, Rat(2, 100)))
                  \/ RLt(RAdd(pinnedRanges[i].end, Rat(2, 100)), v))
              => snapCall[k].result = v
    /\ snapTo(ExampleRanges, Rat(50, 100)) = Rat(50, 100)

\* A snap call with two ranges whose value lies strictly between them, outside
\* both buffers.
C3_Witness ==
    /\ Len(snapCall) = 1
    /\ Len(pinnedRanges) = 2
    /\ Containing(pinnedRanges, snapCall[1].value) = {}
    /\ RLt(pinnedRanges[1].end, snapCall[1].value)
    /\ RLt(snapCall[1].value, pinnedRanges[2].start)
    /\ snapCall[1].result = snapCall[1].value

\* C4: after a scroll event on a page whose scrollable extent is zero or
\* negative the stored progress is 0.
C4_ZeroExtentGivesZero ==
    scrollHeight - innerHeight <= 0 => scrollProgress = Zero

\* C5: with the document at least as high as the viewport the stored progress
\* is a number in [0,1], the clamped ratio scrollTop / extent, 0 at the top
\* and 1 at the bottom.
C5_ProgressIsClampedRatio ==
    scrollHeight >= innerHeight =>
        LET extent == scrollHeight - innerHeight
        IN  /\ IsRat(scrollProgress)
            /\ RLe(Zero, scrollProgress) /\ RLe(scrollProgress, One)
            /\ scrollY = 0 => scrollProgress = Zero
            /\ extent > 0 =>
                  /\ scrollY <= 0 => scrollProgress = Zero
                  /\ scrollY >= extent => scrollProgress = One
                  /\ (0 < scrollY /\ scrollY < extent) =>
                        scrollProgress = Rat(scrollY, extent)

\* C6: the explosion has fired exactly once if the rose got six or more taps
\* and never otherwise; it created exactly 30 petals and revealed the final
\* message.
C6_ExplodesOnceOnSixthTap ==
    /\ explosions = (IF taps >= 6 THEN 1 ELSE 0)
    /\ petalsCreated = 30 * explosions
    /\ messageShown = (taps >= 6)
    /\ hasExploded = (taps >= 6)

\* The sixth tap has just exploded the rose, no petal is gone yet.
C6_Witness ==
    taps = 6 /\ explosions = 1 /\ petals = 30 /\ messageShown

\* C7: the tap counter stays in 0..6 and every step leaves it unchanged or
\* adds exactly one.
C7_TapCountBounded ==
    /\ [](tapCount \in 0..6)
    /\ [][tapCount' = tapCount \/ tapCount' = tapCount + 1]_vars

\* A seventh tap has left the counter at 6.
C7_Witness == taps = 7 /\ tapCount = 6

\* C8: once exploded always exploded, and from then on no step changes the
\* tap counter or the rose's animation targets.
C8_ExplodedIsTerminal ==
    [][hasExploded => (hasExploded' /\ UNCHANGED <<tapCount, rose>>)]_vars

\* The rose has exploded, got more taps, and lost some of its petals.
C8_Witness ==
    hasExploded /\ taps = MaxTaps /\ petals < petalsCreated /\ mounted

\* C9: after the sections are unmounted no reveal timer of the typing panel
\* fires.
C9_UnmountStopsReveal ==
    [][~mounted => \A r \in 1..MaxRuns : ~RevealStep(r)]_vars

\* C10: after the App is torn down no timer is pending, no global snap
\* trigger is alive and the trigger list is empty; a teardown before the
\* settle delay leaves no snap ever created.
C10_TeardownRemovesSnap ==
    ~mounted =>
        /\ ~timer
        /\ stSnaps = {}
        /\ triggersRef = <<>>
        /\ ~isLoaded => pinnedRanges = <<>>

\* Torn down after the settle timer created the global snap.
C10_Witness ==
    ~mounted /\ isLoaded /\ pinnedRanges # <<>> /\ stSnaps = {}

\* C11: the registry's ranges are produced at most once, by the settle timer's
\* callback and never while the timer is still pending; a callback that finds
\* no pinned section or a scroll extent of zero produces no ranges and no
\* global snap trigger, and without ranges nothing ever snaps.
C11_RangesOnceAfterSettle ==
    /\ [](timer => (pinnedRanges = <<>> /\ stSnaps = {}))
    /\ [][pinnedRanges # <<>> => pinnedRanges' = pinnedRanges]_vars
    /\ [][pinnedRanges' # pinnedRanges => (timer /\ ~timer')]_vars
    /\ [][(timer /\ ~timer' /\ (maxScroll = 0 \/ Len(Pinned(stAll)) = 0))
             => (pinnedRanges' = <<>> /\ stSnaps' = {})]_vars
    /\ [](pinnedRanges = <<>> => (stSnaps = {} /\ snapCall = <<>>))

\* The settle timer has fired on a page that has a pinned section but cannot
\* scroll: no ranges, no snap trigger.
C11_Witness ==
    /\ mounted /\ isLoaded /\ ~timer
    /\ maxScroll = 0 /\ Len(Pinned(stAll)) > 0
    /\ pinnedRanges = <<>> /\ stSnaps = {}

\* The ranges [0, 0.5] and [0.5, 1] with the centers 0.25 and 0.75.
TieRanges ==
    <<[start |-> Rat(0, 1), end |-> Rat(1, 2), center |-> Rat(1, 4)],
      [start |-> Rat(1, 2), end |-> Rat(1, 1), center |-> Rat(3, 4)]>>

\* C12: a value inside a buffered range snaps to the center of the first range
\* of the registry among those whose centers are nearest to it; a later range
\* is taken only if its center is strictly nearer.
C12_FirstRangeWinsTies ==
    /\ \A k \in 1..Len(snapCall) :
          LET v == snapCall[k].value
              nearest == {i \in 1..Len(pinnedRanges) :
                            \A j \in 1..Len(pinnedRanges) :
                                RLe(Dist(pinnedRanges[i].center, v),
                                    Dist(pinnedRanges[j].center, v))}
          IN  Containing(pinnedRanges, v) # {} =>
                \E i \in nearest :
                    /\ \A j \in nearest : i <= j
                    /\ snapCall[k].result = pinnedRanges[i].center
    /\ snapTo(TieRanges, Rat(1, 2)) = Rat(1, 4)

\* A value at the same distance from two different centers has snapped to the
\* center of the first range.
C12_Witness ==
    /\ Len(snapCall) = 1
    /\ Len(pinnedRanges) = 2
    /\ Containing(pinnedRanges, snapCall[1].value) # {}
    /\ pinnedRanges[1].center # pinnedRanges[2].center
    /\ Dist(pinnedRanges[1].center, snapCall[1].value)
          = Dist(pinnedRanges[2].center, snapCall[1].value)
    /\ snapCall[1].result = pinnedRanges[1].center

\* C13: every range of the registry has start <= center <= end, its center
\* is start + (end - start) * 0.5 in normalised units, and its start, center
\* and end lie in [0,1].
C13_CenterBetweenStartAndEnd ==
    \A i \in 1..Len(pinnedRanges) :
        LET r == pinnedRanges[i]
        IN  /\ RLe(r.start, r.center) /\ RLe(r.center, r.end)
            /\ r.center = RAdd(r.start, RMul(RSub(r.end, r.start), Rat(1, 2)))
            /\ RLe(Zero, r.start) /\ RLe(r.end, One)

\* The registry holds a range of positive length next to one of length zero.
C13_Witness ==
    /\ Len(pinnedRanges) = 2
    /\ \E i, j \in 1..2 :
          /\ RLt(pinnedRanges[i].start, pinnedRanges[i].end)
          /\ pinnedRanges[j].start = pinnedRanges[j].end

\* The stage table: each stage with the start and the end of its range.
StageTable ==
    <<[stage |-> "hero",          lo |-> Rat(0, 100),  hi |-> Rat(15, 100)],
      [stage |-> "rose-reveal",   lo |-> Rat(15, 100), hi |-> Rat(30, 100)],
      [stage |-> "memory-orbits", lo |-> Rat(30, 100), hi |-> Rat(50, 100)],
      [stage |-> "letter",        lo |-> Rat(50, 100), hi |-> Rat(65, 100)],
      [stage |-> "heart",         lo |-> Rat(65, 100), hi |-> Rat(80, 100)],
      [stage |-> "finale",        lo |-> Rat(80, 100), hi |-> Rat(100, 100)]>>

\* p lies in the range of the table's i-th stage: [lo, hi), and [lo, hi] for
\* the finale.
InStage(p, i) ==
    /\ RLe(StageTable[i].lo, p)
    /\ RLt(p, StageTable[i].hi) \/ (i = Len(StageTable) /\ p = StageTable[i].hi)

\* The progress values of the finished page's scroll positions.
SceneGrid == {PageProgress(y) : y \in 0..SceneExtent}

InUnit(p) == IsRat(p) /\ RLe(Zero, p) /\ RLe(p, One)

\* stage is the one stage of the table whose range holds p.
SelectsTableStage(p, stage) ==
    \E i \in 1..Len(StageTable) :
        /\ stage = StageTable[i].stage
        /\ InStage(p, i)
        /\ \A j \in 1..Len(StageTable) : InStage(p, j) => j = i

\* The branches of the page's scroll positions, and of the three examples.
StageOnGrid ==
    /\ \A p \in SceneGrid : SelectsTableStage(p, Stage(p))
    /\ Stage(Rat(0, 100)) = "hero"
    /\ Stage(Rat(50, 100)) = "letter"
    /\ Stage(Rat(99, 100)) = "finale"

\* C14: for a progress in [0,1] the camera's branch is the one stage of the
\* table whose range holds the progress, a progress on a boundary taking the
\* later stage: 0.0 is hero, 0.50 is letter, 0.99 is finale.
C14_StageSelectionTotalAndExact ==
    /\ \A k \in 1..Len(frame) :
          InUnit(frame[k].progress) =>
              SelectsTableStage(frame[k].progress, frame[k].stage)
    /\ StageOnGrid

\* A frame was rendered at the boundary 0.50 and took the letter stage.
C14_Witness ==
    /\ Len(frame) = 1
    /\ frame[1].progress = Rat(50, 100)
    /\ frame[1].stage = "letter"

\* t is the position of p within the range of the table's stage named stage.
IsLocalProgress(p, stage, t) ==
    \A i \in 1..Len(StageTable) :
        StageTable[i].stage = stage =>
            /\ t = RDiv(RSub(p, StageTable[i].lo),
                        RSub(StageTable[i].hi, StageTable[i].lo))
            /\ RLe(Zero, t) /\ RLe(t, One)
            /\ p = StageTable[i].lo => t = Zero

\* The local t of the page's scroll positions, and of progress 1.0.
LocalProgressOnGrid ==
    /\ \A p \in SceneGrid : IsLocalProgress(p, Stage(p), LocalT(p))
    /\ Stage(One) = "finale" /\ LocalT(One) = One

PiecewiseGrowth(p) ==
    IF RLt(p, Rat(15, 100)) THEN Zero
    ELSE IF RLt(p, Rat(30, 100))
         THEN RDiv(RMul(Rat(3, 1), RSub(p, Rat(15, 100))), Rat(15, 100))
    ELSE IF RLt(p, Rat(50, 100)) THEN Rat(3, 1)
    ELSE IF RLt(p, Rat(65, 100))
         THEN RSub(Rat(3, 1),
                   RDiv(RMul(Rat(15, 10), RSub(p, Rat(50, 100))), Rat(15, 100)))
    ELSE Rat(15, 10)

C17_VisibilityGatesStrict ==
    /\ InUnit(scrollProgress) =>
          /\ scene.showAsteroid = (/\ RLt(Rat(10, 100), scrollProgress)
                                   /\ RLt(scrollProgress, Rat(65, 100)))
          /\ scene.showMemories = (/\ RLt(Rat(30, 100), scrollProgress)
                                   /\ RLt(scrollProgress, Rat(55, 100)))
          /\ scene.showHeart = RLt(Rat(60, 100), scrollProgress)
          /\ scrollProgress \in {Rat(10, 100), Rat(65, 100)}
                => ~scene.showAsteroid
          /\ scrollProgress \in {Rat(30, 100), Rat(55, 100)}
                => ~scene.showMemories
          /\ scrollProgress = Rat(60, 100) => ~scene.showHeart
    /\ ~showAsteroid(Rat(10, 100)) /\ ~showAsteroid(Rat(65, 100))
    /\ ~showMemories(Rat(30, 100)) /\ ~showMemories(Rat(55, 100))
    /\ ~showHeart(Rat(60, 100))

\* The page is at the heart's threshold 0.60: no heart, no memory orbits, the
\* asteroid still there.
C17_Witness ==
    /\ scrollProgress = Rat(60, 100)
    /\ ~scene.showHeart
    /\ ~scene.showMemories
    /\ scene.showAsteroid

\* C28: at every progress the page can report, memory orbs rendered implies
\* the asteroid with the rose rendered, and the memory orbits and the
\* constellation heart are never rendered together: the orbits only below
\* 0.55, the heart only above 0.60.
C28_WindowsNestedAndExclusive ==
    /\ scene.showMemories => scene.showAsteroid
    /\ ~(scene.showMemories /\ scene.showHeart)
    /\ scene.showMemories => RLt(scrollProgress, Rat(55, 100))
    /\ scene.showHeart => RLt(Rat(60, 100), scrollProgress)

\* The page is in the middle of the orbit window: orbits and asteroid, no
\* heart.
C28_Witness ==
    /\ scrollProgress = Rat(40, 100)
    /\ scene.showMemories
    /\ scene.showAsteroid
    /\ ~scene.showHeart

\* clamp(x, 0, 1)
Clamp01(x) == IF RLt(x, Zero) THEN Zero ELSE IF RLt(One, x) THEN One ELSE x

Axes == {"x", "y", "z"}

\* C19: a frame moves the camera position by exactly 5% of the remaining
\* vector towards the target of the current progress; it does not land on
\* the target when it was away from it, and no component of the remaining
\* vector grows (each shrinks to 95%), so the distance does not increase.
C19_CameraMovesFivePercent ==
    [][frames' = frames + 1 =>
          LET target == TargetPosition(scrollProgress, mobile)
          IN  /\ frame'[1].target = target
              /\ \A c \in Axes :
                    /\ cameraPosition'[c] =
                          RAdd(cameraPosition[c],
                               RMul(Rat(5, 100),
                                    RSub(target[c], cameraPosition[c])))
                    /\ RLe(Dist(target[c], cameraPosition'[c]),
                           Dist(target[c], cameraPosition[c]))
                    /\ Dist(target[c], cameraPosition'[c]) =
                          RMul(Rat(95, 100), Dist(target[c], cameraPosition[c]))
              /\ cameraPosition # target => cameraPosition' # target]_vars

\* Two frames were rendered, and the camera is still away from the last
\* frame's target.
C19_Witness ==
    /\ frames = 2
    /\ Len(frame) = 1
    /\ cameraPosition # frame[1].target

\* v moved back by the depth offset 3.
Shifted(v) == Vector3(v.x, v.y, RAdd(v.z, Rat(3, 1)))

C29_LoadingIndicatorRemoved ==
    /\ <>(isLoaded \/ ~mounted)
    /\ [][(timer /\ ~timer' /\ mounted') => isLoaded']_vars
    /\ [][isLoaded => isLoaded']_vars

\* The settle timer fired on a scrollable page without pinned sections: the
\* snap setup returned early and the indicator is gone.
C29_Witness ==
    /\ mounted /\ isLoaded /\ ~timer
    /\ maxScroll > 0 /\ Len(stAll) > 0 /\ Len(Pinned(stAll)) = 0
    /\ pinnedRanges = <<>> /\ stSnaps = {}

\* C27: snapping is idempotent, snapTo(snapTo(v)) = snapTo(v), and the result
\* of snapTo is v itself or the center of one of the registered ranges, for
\* the ranges the effect captured (each with start <= center <= end) and
\* every value snapped.
C27_SnapIdempotent ==
    \A k \in 1..Len(snapCall) :
        LET v == snapCall[k].value
            result == snapCall[k].result
        IN  /\ \A i \in 1..Len(pinnedRanges) :
                  /\ RLe(pinnedRanges[i].start, pinnedRanges[i].center)
                  /\ RLe(pinnedRanges[i].center, pinnedRanges[i].end)
            /\ snapTo(pinnedRanges, result) = result
            /\ \/ result = v
               \/ \E i \in 1..Len(pinnedRanges) :
                     result = pinnedRanges[i].center

\* A value in the buffer below the second of two ranges was moved to that
\* range's center, where a second snap leaves it.
C27_Witness ==
    /\ Len(snapCall) = 1
    /\ Len(pinnedRanges) = 2
    /\ RLt(snapCall[1].value, pinnedRanges[2].start)
    /\ snapCall[1].result = pinnedRanges[2].center
    /\ snapCall[1].result # pinnedRanges[1].center
    /\ snapTo(pinnedRanges, snapCall[1].result) = snapCall[1].result

(***************************************************************************)
(* The sound toggle.                                                       *)
(***************************************************************************)
\* C21: once the ambient track has failed to load the toggle is disabled
\* (isLoaded false), isPlaying is false and neither play nor pause was ever
\* called, and a click changes none of that; when the track has loaded, a
\* click flips isPlaying, calling play (and nothing else) when it turns
\* playing on and pause (and nothing else) when it turns it off.
C21_LoadFailureDegradesSafely ==
    /\ [](soundRef.state = "error" =>
            /\ ~soundIsLoaded
            /\ ~isPlaying
            /\ playCalls = 0 /\ pauseCalls = 0)
    /\ [][clicks' # clicks =>
            /\ soundRef.state = "error" =>
                  /\ ~isPlaying' /\ ~soundIsLoaded'
                  /\ UNCHANGED <<soundRef, playCalls, pauseCalls>>
            /\ soundRef.state = "loaded" =>
                  /\ isPlaying' = ~isPlaying
                  /\ soundRef'.playing = isPlaying'
                  /\ playCalls' = playCalls + (IF isPlaying' THEN 1 ELSE 0)
                  /\ pauseCalls' = pauseCalls + (IF isPlaying' THEN 0 ELSE 1)
         ]_vars

\* The track failed to load and the toggle was clicked afterwards.
C21_Witness ==
    /\ mounted
    /\ soundRef.state = "error"
    /\ clicks = MaxClicks
    /\ ~isPlaying

\* C30: while the toggle is mounted, isPlaying = true implies that the Howl
\* it holds is loaded and was told to play (and not paused or unloaded
\* since), also after the audioUrl prop changed.
C30_PlayingImpliesSoundPlays ==
    (mounted /\ isPlaying) =>
        soundRef.state = "loaded" /\ soundRef.playing

(***************************************************************************)
(* The memory overlay.                                                     *)
(***************************************************************************)
\* C22: a click on the orb of memory m leaves isModalOpen true and
\* selectedMemory = m, the memory of the orb clicked last, so that the
\* overlay is rendered with m's title, date, image and message.
C22_OrbClickOpensItsMemory ==
    [][\A m \in Memories :
          OrbClick(m) =>
              /\ isModalOpen'
              /\ selectedMemory' = m
              /\ ModalShown']_vars

\* The overlay shows the last memory, clicked after an earlier overlay was
\* closed and before that close's timer fired.
C22_Witness ==
    /\ mounted
    /\ ModalShown
    /\ selectedMemory = MaxMemories
    /\ clearTimers > 0

\* C25: in every reachable state isModalOpen = true implies that
\* selectedMemory is not null, whatever the order of orb clicks, closes and
\* the 300 ms timers that clear selectedMemory.
C25_OpenImpliesSelected == isModalOpen => selectedMemory # null

(***************************************************************************)
(* The typewriter's runs.                                                  *)
(***************************************************************************)
FullText ==
    /\ displayedGreeting = greeting
    /\ displayedBody = body
    /\ displayedClosing = closing

\* The panel is mounted and one typeText() call runs with no other call
\* beside it since it began.
SingleRun == mounted /\ Len(runs) = 1 /\ runs[1].alone

\* C23: in a single uninterrupted reveal run the body shows nothing until
\* the greeting is fully displayed and the closing shows nothing until the
\* body is; a segment under way shows exactly as many characters as steps
\* were taken in it, so each step adds one character; and isTypingComplete
\* is false while the run lasts and is set by a step taken when the closing
\* (and with it the whole letter) is fully displayed.
C23_SegmentsInOrder ==
    /\ [](SingleRun =>
            /\ displayedBody # <<>> => displayedGreeting = greeting
            /\ displayedClosing # <<>> => displayedBody = body
            /\ runs[1].pc = "greeting" =>
                  displayedGreeting = SubSeq(greeting, 1, runs[1].i)
            /\ runs[1].pc = "body" =>
                  displayedBody = SubSeq(body, 1, runs[1].i)
            /\ runs[1].pc = "closing" =>
                  displayedClosing = SubSeq(closing, 1, runs[1].i)
            /\ ~isTypingComplete)
    /\ [][(SingleRun /\ Len(runs') <= 1 /\ mounted') =>
            /\ Len(displayedGreeting') - Len(displayedGreeting) \in {0, 1}
            /\ Len(displayedBody') - Len(displayedBody) \in {0, 1}
            /\ Len(displayedClosing') - Len(displayedClosing) \in {0, 1}
            /\ Len(displayedGreeting') + Len(displayedBody')
                  + Len(displayedClosing')
                  <= Len(displayedGreeting) + Len(displayedBody)
                       + Len(displayedClosing) + 1
            /\ isTypingComplete' => FullText /\ FullText']_vars

\* A single run has fully displayed the greeting and the body and is about
\* to begin the closing.
C23_Witness ==
    /\ SingleRun
    /\ runs[1].pc = "pause2"
    /\ displayedGreeting = greeting
    /\ displayedBody = body
    /\ displayedClosing = <<>>

\* C24: in every reachable state, also after the section hid and showed the
\* panel again, isTypingComplete = true implies that the three displayed
\* segments are the full greeting, body and closing.
C24_CompleteImpliesFullText == isTypingComplete => FullText

\* The setDisplayed...() calls of one typeText() call: one for every i from
\* 0 to the length of each segment.
RevealSteps == (Len(greeting) + 1) + (Len(body) + 1) + (Len(closing) + 1)

\* C26: when isVisible is true and stays true (the panel staying mounted),
\* the reveal terminates: eventually no typeText() call is running, the three
\* displayed segments are the full texts and isTypingComplete is true; and a
\* call that returned made exactly (len(greeting)+1) + (len(body)+1) +
\* (len(closing)+1) reveal steps and sat out two inter-segment pauses.
C26_RevealTerminates ==
    /\ (isVisible /\ mounted) ~>
          \/ runs = <<>> /\ FullText /\ isTypingComplete
          \/ ~isVisible
          \/ ~mounted
    /\ [](\A k \in 1..Len(finished) :
            finished[k].steps = RevealSteps /\ finished[k].pauses = 2)

\* A reveal ran to its end on a panel that is still visible.
C26_Witness ==
    /\ isVisible /\ mounted
    /\ runs = <<>>
    /\ Len(finished) = 1
    /\ isTypingComplete /\ FullText

=============================================================================
